---- MODULE Spec2Model ----
(***************************************************************************)
(* Model of runAnalysis (services/api.ts): the streaming analysis client.  *)
(* One run: fetch the /hedge-fund/run response, read its body chunk by     *)
(* chunk, decode bytes to text, split the text into lines, parse every     *)
(* "data: " line as JSON and dispatch it to onProgress / onComplete /      *)
(* onError; cancel() aborts the AbortController.                           *)
(*                                                                         *)
(* Text is a sequence of characters, each character a string.  A byte      *)
(* stream is a sequence of bytes; an ASCII character is the byte of the    *)
(* same name and the two-byte character EAcute is the bytes C3 A9.         *)
(* A JSON object is written in an abbreviated concrete syntax              *)
(*     { k }   or   { k a }                                                *)
(* where k abbreviates the "type" member (p progress, c complete, e error, *)
(* u a type this client does not know) and a abbreviates the one other     *)
(* member (agent / result / message); the letter q abbreviates the empty   *)
(* string literal.  The text n is the JSON literal null.                   *)
(***************************************************************************)
EXTENDS Integers, Sequences, FiniteSets, TLC

VARIABLES
    pc,          \* where runStream is: Idle, Fetching, Reading, Dispatching, Done
    content,     \* the bytes the backend sends on the response body
    pos,         \* how many of them the reader has handed out
    decoderPending, \* TextDecoder's held-back bytes of an incomplete character
    buffer,      \* `buffer`: decoded text after the last line break
    lines,       \* the lines of the current chunk the for loop has yet to visit
    aborted,     \* controller.signal.aborted
    log,         \* the callback invocations so far, in order
    throwers,    \* the callbacks (of the caller) that throw when invoked
    exit,        \* how runStream ended: none, returned, eof, aborted, failed
    rejected,    \* runStream's promise was rejected: an exception left runStream
    peer,        \* the run of another runAnalysis call while it is not executing
    request,     \* the AnalysisRequest runAnalysis is called with
    sent,        \* the bodies of the requests issued by fetch, in order
    analysisState,  \* App: isRunning, progress, result, error, cancelFunction
    formData,    \* App: the selections of the form
    formErrors,  \* App: the fields validateForm has refused
    models,      \* App: the models offered for selection
    loads,       \* App: the loadModels calls whose response has not arrived
    searchQuery,    \* StockSelector: the text of the search field
    searchResults,  \* StockSelector: the stocks offered for selection
    showResults,    \* StockSelector: whether the list of results is shown
    searches     \* StockSelector: the debounced searches that have not finished

\* the state of the form and its selectors
formVars == <<formData, formErrors, models, loads, searchQuery, searchResults,
              showResults, searches>>

vars == <<pc, content, pos, decoderPending, buffer, lines, aborted, log, throwers, exit,
          rejected, peer, request, sent, analysisState, formVars>>

----------------------------------------------------------------------------
(* Bounds of the model *)

\* a response body carries at most this many lines
MaxFrames == 3

\* a single read hands out at most this many bytes
MaxChunk == 24

\* the debounced searches that may be pending at a time
MaxSearches == 2

\* the loadModels calls that may await their response at a time
MaxLoads == 2

\* the prop maxSelections of StockSelector (5 in the App), scaled down
MaxSelections == 2

----------------------------------------------------------------------------
(* Characters and bytes *)

LF == "LF"
CR == "CR"
SP == " "
EAcute == "U+00E9"
Replacement == "U+FFFD"

Whitespace == {SP, CR, LF}

\* the bytes of one character in UTF-8
Utf8(ch) == IF ch = EAcute THEN <<"C3", "A9">> ELSE <<ch>>

\* the UTF-8 bytes of a text (by halves, to keep the evaluation shallow)
RECURSIVE Encode(_)
Encode(text) ==
    IF text = <<>> THEN <<>>
    ELSE IF Len(text) = 1 THEN Utf8(text[1])
    ELSE LET h == Len(text) \div 2
         IN  Encode(SubSeq(text, 1, h)) \o Encode(SubSeq(text, h + 1, Len(text)))

\* the decoder on one byte b, with `pending` the bytes it holds back: a lead
\* byte is held back, a lead byte followed by anything but its continuation
\* and a continuation byte on its own are replaced by U+FFFD
DecodeByte(pending, b) ==
    LET fresh == IF b = "C3" THEN [text |-> <<>>, pending |-> <<"C3">>]
                 ELSE IF b = "A9" THEN [text |-> <<Replacement>>, pending |-> <<>>]
                 ELSE [text |-> <<b>>, pending |-> <<>>]
    IN  IF pending = <<"C3">>
        THEN IF b = "A9" THEN [text |-> <<EAcute>>, pending |-> <<>>]
             ELSE [text |-> <<Replacement>> \o fresh.text, pending |-> fresh.pending]
        ELSE fresh

\* the bytes that are not a character of their own
NonAscii == {"C3", "A9"}

\* the length of the run of ASCII bytes that `bytes` starts with
AsciiRun(bytes) ==
    LET at == { i \in 1..Len(bytes) : bytes[i] \in NonAscii }
    IN  IF at = {} THEN Len(bytes) ELSE (CHOOSE i \in at : \A j \in at : i <= j) - 1

\* decoder.decode(value, {stream: true}): the text of `bytes` given the bytes
\* held back by the previous call, and the bytes held back by this one; a run
\* of ASCII bytes met with nothing held back is its own text
RECURSIVE Decode(_, _)
Decode(pending, bytes) ==
    IF bytes = <<>> THEN [text |-> <<>>, pending |-> pending]
    ELSE IF pending = <<>> /\ AsciiRun(bytes) > 0
    THEN LET k == AsciiRun(bytes)
             r == Decode(<<>>, SubSeq(bytes, k + 1, Len(bytes)))
         IN  [text |-> SubSeq(bytes, 1, k) \o r.text, pending |-> r.pending]
    ELSE LET d == DecodeByte(pending, Head(bytes))
             r == Decode(d.pending, Tail(bytes))
         IN  [text |-> d.text \o r.text, pending |-> r.pending]

----------------------------------------------------------------------------
(* String helpers of the loop body *)

\* text.split('\n'): always at least one part
RECURSIVE Split(_)
Split(text) ==
    LET at == { i \in 1..Len(text) : text[i] = LF }
    IN  IF at = {} THEN <<text>>
        ELSE LET i == CHOOSE j \in at : \A k \in at : j <= k
             IN  <<SubSeq(text, 1, i - 1)>> \o Split(SubSeq(text, i + 1, Len(text)))

\* a faulty variant of PopLast: the rest of the chunk is not kept
PopLast_Dropped(parts) == <<>>

\* lines.pop() || '': the last part stays in the buffer
PopLast(parts) == parts[Len(parts)]

\* a faulty variant of Popped: the last part is not taken out of `lines`
Popped_All(parts) == parts

\* the parts left in `lines` after lines.pop()
Popped(parts) == SubSeq(parts, 1, Len(parts) - 1)

RECURSIVE TrimStart(_)
TrimStart(text) ==
    IF text # <<>> /\ Head(text) \in Whitespace THEN TrimStart(Tail(text)) ELSE text

RECURSIVE TrimEnd(_)
TrimEnd(text) ==
    IF text # <<>> /\ text[Len(text)] \in Whitespace
    THEN TrimEnd(SubSeq(text, 1, Len(text) - 1)) ELSE text

\* line.trim()
Trim(text) == TrimEnd(TrimStart(text))

\* 'data: '
Prefix == <<"d", "a", "t", "a", ":", SP>>

\* line.slice(6)
PrefixLen == 6

StartsWith(text, p) == Len(text) >= Len(p) /\ SubSeq(text, 1, Len(p)) = p

Slice(text, n) == SubSeq(text, n + 1, Len(text))

----------------------------------------------------------------------------
(* JSON.parse on the abbreviated syntax *)

Types == {"p", "c", "e", "u"}
Members == {"a", "b", "r", "m", "q", EAcute}

Undefined == "undefined"

\* the value of a member: q is the empty string
MemberValue(a) == IF a = "q" THEN "" ELSE a

TypeName(k) ==
    CASE k = "p" -> "progress"
      [] k = "c" -> "complete"
      [] k = "e" -> "error"
      [] OTHER   -> "unknown"

\* JSON.parse(text): ok is FALSE where it throws a SyntaxError; the value null
\* has isNull TRUE
JSONParse(text) ==
    LET t == Trim(text)
        bad == [ok |-> FALSE, isNull |-> FALSE, type |-> Undefined, member |-> Undefined]
    IN  IF t = <<"n">>
        THEN [ok |-> TRUE, isNull |-> TRUE, type |-> Undefined, member |-> Undefined]
        ELSE IF t = <<"{", "}">>
        THEN [ok |-> TRUE, isNull |-> FALSE, type |-> Undefined, member |-> Undefined]
        ELSE IF Len(t) = 3 /\ t[1] = "{" /\ t[2] \in Types /\ t[3] = "}"
        THEN [ok |-> TRUE, isNull |-> FALSE, type |-> TypeName(t[2]), member |-> Undefined]
        ELSE IF Len(t) = 4 /\ t[1] = "{" /\ t[2] \in Types /\ t[3] \in Members /\ t[4] = "}"
        THEN [ok |-> TRUE, isNull |-> FALSE, type |-> TypeName(t[2]),
              member |-> MemberValue(t[3])]
        ELSE bad

----------------------------------------------------------------------------
(* Dispatch of one line *)

FallbackMsg == "Analysis failed"

\* a faulty variant of OrFallback: x ?? 'Analysis failed'
OrFallback_Nullish(x) == IF x = Undefined THEN FallbackMsg ELSE x

\* x || 'Analysis failed'
OrFallback(x) == IF x \in {Undefined, ""} THEN FallbackMsg ELSE x

Call(cb, arg) == [cb |-> cb, arg |-> arg]

NoCall == [calls |-> <<>>, ret |-> FALSE]

\* a faulty variant of OnParseError: no inner catch, the error ends the run as a failure
OnParseError_Reported == [calls |-> <<Call("onError", FallbackMsg)>>, ret |-> TRUE]

\* catch (parseError): log it and go on with the next line
OnParseError == NoCall

\* a faulty variant of DispatchData: a final else that reports the frame
DispatchData_UnknownFails(data, thr) ==
    IF data.type = "progress"
    THEN [calls |-> <<Call("onProgress", data.member)>>, ret |-> FALSE]
    ELSE IF data.type = "complete"
    THEN [calls |-> <<Call("onComplete", data.member)>>,
          ret |-> "onComplete" \notin thr]
    ELSE [calls |-> <<Call("onError", OrFallback(data.member))>>,
          ret |-> "onError" \notin thr]

\* the if / else-if chain on data.type; thr is the set of callbacks that
\* throw, whose exception the inner catch swallows before the `return`
DispatchData(data, thr) ==
    IF data.type = "progress"
    THEN [calls |-> <<Call("onProgress", data.member)>>, ret |-> FALSE]
    ELSE IF data.type = "complete"
    THEN [calls |-> <<Call("onComplete", data.member)>>,
          ret |-> "onComplete" \notin thr]
    ELSE IF data.type = "error"
    THEN [calls |-> <<Call("onError", OrFallback(data.member))>>,
          ret |-> "onError" \notin thr]
    ELSE NoCall

\* a faulty variant of DispatchLine: the prefix is looked for, and cut off, on
\* the trimmed line
DispatchLine_Trimmed(line, thr) ==
    LET t == Trim(line)
    IN  IF t = <<>> THEN NoCall
        ELSE IF ~StartsWith(t, Prefix) THEN NoCall
        ELSE LET data == JSONParse(Slice(t, PrefixLen))
             IN  IF ~data.ok \/ data.isNull THEN OnParseError
                 ELSE DispatchData(data, thr)

\* the body of `for (const line of lines)`: the callback invoked for `line`
\* (none or one) and whether the loop body reached a `return`; reading .type
\* of null throws a TypeError the inner catch takes like a SyntaxError
DispatchLine(line, thr) ==
    IF Trim(line) = <<>> THEN NoCall
    ELSE IF ~StartsWith(line, Prefix) THEN NoCall
    ELSE LET data == JSONParse(Slice(line, PrefixLen))
         IN  IF ~data.ok \/ data.isNull THEN OnParseError
             ELSE DispatchData(data, thr)

----------------------------------------------------------------------------
(* The streams and callbacks the model runs on *)

Frame(body) == Prefix \o body

ProgressA == Frame(<<"{", "p", "a", "}">>)
ProgressB == Frame(<<"{", "p", EAcute, "}">>)
CompleteR == Frame(<<"{", "c", "r", "}">>)
ErrorM == Frame(<<"{", "e", "m", "}">>)
ErrorEmpty == Frame(<<"{", "e", "q", "}">>)
ErrorBare == Frame(<<"{", "e", "}">>)
Truncated == Frame(<<"{", "p">>)
NullPayload == Frame(<<"n">>)
UnknownType == Frame(<<"{", "u", "a", "}">>)
NoType == Frame(<<"{", "}">>)
LeadingSpace == <<SP>> \o ProgressA
TrailingCR == ProgressA \o <<CR>>
Comment == <<":", "k">>
Blank == <<SP, CR>>

\* a frame followed by the blank line that ends a server-sent event
Event(frame) == frame \o <<LF>>

\* the lines of the streams of Spec
LineTexts == {ProgressA, Event(ProgressB), CompleteR, Truncated}

\* the lines of the streams of SpecError
ErrorLineTexts == {ProgressA, ErrorM, ErrorEmpty, ErrorBare}

\* the lines of the streams of SpecShape
ShapeLineTexts == {ProgressA, NullPayload, Truncated, UnknownType, NoType}

\* the lines of the streams of SpecFraming
FramingLineTexts == {LeadingSpace, TrailingCR, Comment, Blank}

RECURSIVE Join(_)
Join(ls) == IF ls = <<>> THEN <<>> ELSE Head(ls) \o <<LF>> \o Join(Tail(ls))

LineSeqs(texts) == UNION { [1..n -> texts] : n \in 0..MaxFrames }

Streams(texts) == { Encode(Join(ls)) : ls \in LineSeqs(texts) }

Callbacks == {"onProgress", "onComplete", "onError"}

\* the callers of the model: callbacks that never throw, callbacks that all throw
ThrowerSets == {{}, Callbacks}

\* messages of the errors thrown by the transport ('' when it has none)
FetchErrorMsgs == {"Failed to fetch", ""}
ReadErrorMsgs == {"network error"}
HttpErrorMsg == "HTTP error! status"
NoReaderMsg == "Failed to get response reader"

----------------------------------------------------------------------------
(* The request *)

\* an optional number: <<>> where the field is absent, <<v>> where it is v
Absent == <<>>

Some(v) == <<v>>

DefaultInitialCash == 100000

DefaultMargin == 0

\* x || dflt on an optional number: undefined and 0 are falsy
OrDefault(x, dflt) == IF x = Absent \/ x[1] = 0 THEN dflt ELSE x[1]

\* the object handed to JSON.stringify
RequestBody(req) ==
    [tickers |-> req.tickers,
     selected_agents |-> req.selectedAnalysts,
     model_name |-> req.modelName,
     model_provider |-> req.modelProvider,
     initial_cash |-> OrDefault(req.initialCash, DefaultInitialCash),
     margin_requirement |-> OrDefault(req.marginRequirement, DefaultMargin)]

\* the request of the runs that are not started from the form
DefaultRequest ==
    [tickers |-> <<"AAPL">>, selectedAnalysts |-> {"buffett"},
     modelName |-> "m1", modelProvider |-> "A",
     initialCash |-> Absent, marginRequirement |-> Absent]

----------------------------------------------------------------------------
(* The caller's callbacks *)

\* the caller is not the App
NoUI == [caller |-> "other"]

Null == "null"

\* App's three callbacks: setAnalysisState(prev => ...)
OnProgressState(s, progress) == [s EXCEPT !.progress = Append(@, progress)]

OnCompleteState(s, result) == [s EXCEPT !.isRunning = FALSE, !.result = result]

OnErrorState(s, error) == [s EXCEPT !.isRunning = FALSE, !.error = error]

\* the state of the caller after the callbacks of `calls` (none or one)
Deliver(s, calls) ==
    IF s = NoUI \/ calls = <<>> THEN s
    ELSE IF calls[1].cb = "onProgress" THEN OnProgressState(s, calls[1].arg)
    ELSE IF calls[1].cb = "onComplete" THEN OnCompleteState(s, calls[1].arg)
    ELSE OnErrorState(s, calls[1].arg)

\* no form: the selectors are not part of the run
NoForm ==
    /\ formData = [selectedStocks |-> <<>>]
    /\ formErrors = {}
    /\ models = <<>>
    /\ loads = {}
    /\ searchQuery = ""
    /\ searchResults = <<>>
    /\ showResults = FALSE
    /\ searches = {}

----------------------------------------------------------------------------
(* The run *)

\* no other run
NoPeer == [pc |-> "None"]

InitOn(texts) ==
    /\ pc = "Idle"
    /\ content \in Streams(texts)
    /\ throwers \in ThrowerSets
    /\ pos = 0
    /\ decoderPending = <<>>
    /\ buffer = <<>>
    /\ lines = <<>>
    /\ aborted = FALSE
    /\ log = <<>>
    /\ exit = "none"
    /\ rejected = FALSE
    /\ peer = NoPeer
    /\ request = DefaultRequest
    /\ sent = <<>>
    /\ analysisState = NoUI
    /\ NoForm

\* runAnalysis(...): creates the controller, starts runStream up to its first
\* await (the fetch) and returns the cancel function
Start ==
    /\ pc = "Idle"
    /\ pc' = "Fetching"
    /\ sent' = Append(sent, RequestBody(request))
    /\ UNCHANGED <<content, pos, decoderPending, buffer, lines, aborted, log, throwers, exit, rejected, peer,
                   request, analysisState, formVars>>

\* a faulty variant of Fail: the outer catch throws the error again
Fail_Rethrow(msg) ==
    /\ rejected' = TRUE
    /\ pc' = "Done"
    /\ exit' = "failed"
    /\ lines' = <<>>
    /\ UNCHANGED <<content, pos, decoderPending, buffer, aborted, log, throwers, peer,
                   request, sent, analysisState, formVars>>

\* a faulty variant of Fail: the outer catch only logs
Fail_Silent(msg) ==
    /\ pc' = "Done"
    /\ exit' = "failed"
    /\ lines' = <<>>
    /\ UNCHANGED <<content, pos, decoderPending, buffer, aborted, log, throwers, rejected, peer,
                   request, sent, analysisState, formVars>>

\* the outer catch on an error that is not an AbortError; an onError that
\* throws here rejects runStream's promise, which nobody awaits
Fail(msg) ==
    /\ log' = Append(log, Call("onError", OrFallback(msg)))
    /\ analysisState' = Deliver(analysisState, <<Call("onError", OrFallback(msg))>>)
    /\ rejected' = ("onError" \in throwers)
    /\ pc' = "Done"
    /\ exit' = "failed"
    /\ lines' = <<>>
    /\ UNCHANGED <<content, pos, decoderPending, buffer, aborted, throwers, peer,
                   request, sent, formVars>>

\* fetch rejects (connection refused, network down)
FetchReject ==
    /\ pc = "Fetching"
    /\ ~aborted
    /\ \E msg \in FetchErrorMsgs : Fail(msg)

\* fetch resolves: status check, getReader, decoder and buffer set up, first read issued
FetchResolve ==
    /\ pc = "Fetching"
    /\ ~aborted
    /\ \E ok \in BOOLEAN, body \in BOOLEAN :
         IF ~ok THEN Fail(HttpErrorMsg)
         ELSE IF ~body THEN Fail(NoReaderMsg)
         ELSE /\ pc' = "Reading"
              /\ decoderPending' = <<>>
              /\ buffer' = <<>>
              /\ UNCHANGED <<content, pos, lines, aborted, log, throwers, exit, rejected, peer,
                             request, sent, analysisState, formVars>>

\* a faulty variant of ReadChunk: decoder.decode(value) without {stream: true}
\* keeps nothing between two calls, an unfinished character becomes U+FFFD
ReadChunk_NoStream ==
    /\ pc = "Reading"
    /\ ~aborted
    /\ \E n \in 1..MaxChunk :
         /\ pos + n <= Len(content)
         /\ LET d == Decode(<<>>, SubSeq(content, pos + 1, pos + n))
                flushed == IF d.pending = <<>> THEN d.text ELSE d.text \o <<Replacement>>
                parts == Split(buffer \o flushed)
            IN  /\ decoderPending' = <<>>
                /\ buffer' = PopLast(parts)
                /\ lines' = Popped(parts)
                /\ pc' = IF Popped(parts) = <<>> THEN "Reading" ELSE "Dispatching"
         /\ pos' = pos + n
    /\ UNCHANGED <<content, aborted, log, throwers, exit, rejected, peer,
                   request, sent, analysisState, formVars>>

\* reader.read() resolves with the next n bytes: decode, split, keep the rest
ReadChunk ==
    /\ pc = "Reading"
    /\ ~aborted
    /\ \E n \in 1..MaxChunk :
         /\ pos + n <= Len(content)
         /\ LET d == Decode(decoderPending, SubSeq(content, pos + 1, pos + n))
                parts == Split(buffer \o d.text)
            IN  /\ decoderPending' = d.pending
                /\ buffer' = PopLast(parts)
                /\ lines' = Popped(parts)
                /\ pc' = IF Popped(parts) = <<>> THEN "Reading" ELSE "Dispatching"
         /\ pos' = pos + n
    /\ UNCHANGED <<content, aborted, log, throwers, exit, rejected, peer,
                   request, sent, analysisState, formVars>>

\* a faulty variant of ReadDone: the text left in the buffer is dispatched as
\* a last line
ReadDone_Flush ==
    /\ pc = "Reading"
    /\ ~aborted
    /\ pc' = "Done"
    /\ exit' = "eof"
    /\ log' = log \o DispatchLine(buffer, throwers).calls
    /\ analysisState' = Deliver(analysisState, DispatchLine(buffer, throwers).calls)
    /\ UNCHANGED <<content, pos, decoderPending, buffer, lines, aborted, throwers, rejected, peer,
                   request, sent, formVars>>

\* reader.read() resolves with done: break, runStream returns
ReadDone ==
    /\ pc = "Reading"
    /\ ~aborted
    /\ pc' = "Done"
    /\ exit' = "eof"
    /\ UNCHANGED <<content, pos, decoderPending, buffer, lines, aborted, log, throwers, rejected, peer,
                   request, sent, analysisState, formVars>>

\* reader.read() rejects with a network error
ReadError ==
    /\ pc = "Reading"
    /\ ~aborted
    /\ \E msg \in ReadErrorMsgs : Fail(msg)

\* a faulty variant of NextLine: the loop runs from the last line
NextLine_Last(ls) == ls[Len(ls)]

\* for (const line of lines): the line the loop visits next, and the lines after it
NextLine(ls) == Head(ls)

RestLines(ls) == Tail(ls)

\* one iteration of the for loop; the callback it invokes may itself call cancel()
ProcessLine ==
    /\ pc = "Dispatching"
    /\ LET d == DispatchLine(NextLine(lines), throwers)
       IN  /\ log' = log \o d.calls
           /\ analysisState' = Deliver(analysisState, d.calls)
           /\ \E c \in BOOLEAN :
                /\ c => d.calls # <<>> /\ analysisState = NoUI
                /\ aborted' = (aborted \/ c)
           /\ IF d.ret
              THEN /\ pc' = "Done"
                   /\ exit' = "returned"
                   /\ lines' = <<>>
              ELSE /\ lines' = RestLines(lines)
                   /\ pc' = IF RestLines(lines) = <<>> THEN "Reading" ELSE "Dispatching"
                   /\ exit' = exit
    /\ UNCHANGED <<content, pos, decoderPending, buffer, throwers, rejected, peer,
                   request, sent, formVars>>

\* cancel(): controller.abort()
Cancel ==
    /\ pc \in {"Fetching", "Reading", "Done"}
    /\ ~aborted
    /\ aborted' = TRUE
    /\ UNCHANGED <<pc, content, pos, decoderPending, buffer, lines, log, throwers, exit, rejected, peer,
                   request, sent, analysisState, formVars>>

\* a faulty variant of AbortObserved: the outer catch does not tell an AbortError apart
AbortObserved_Reported ==
    /\ pc \in {"Fetching", "Reading"}
    /\ aborted
    /\ pc' = "Done"
    /\ exit' = "aborted"
    /\ log' = Append(log, Call("onError", "The user aborted a request."))
    /\ analysisState' = Deliver(analysisState, <<Call("onError", "The user aborted a request.")>>)
    /\ UNCHANGED <<content, pos, decoderPending, buffer, lines, aborted, throwers, rejected, peer,
                   request, sent, formVars>>

\* the pending fetch or read rejects with an AbortError: the outer catch logs
\* 'Analysis cancelled' and invokes nothing
AbortObserved ==
    /\ pc \in {"Fetching", "Reading"}
    /\ aborted
    /\ pc' = "Done"
    /\ exit' = "aborted"
    /\ UNCHANGED <<content, pos, decoderPending, buffer, lines, aborted, log, throwers, rejected, peer,
                   request, sent, analysisState, formVars>>

Next ==
    \/ Start
    \/ FetchReject
    \/ FetchResolve
    \/ ReadChunk
    \/ ReadDone
    \/ ReadError
    \/ ProcessLine
    \/ Cancel
    \/ AbortObserved

\* the run that is executing, as the record `peer` keeps of the other one;
\* the two runs are numbered 1 and 2
ThisRun ==
    [pc |-> pc, content |-> content, pos |-> pos, decoderPending |-> decoderPending,
     buffer |-> buffer, lines |-> lines, aborted |-> aborted, log |-> log,
     throwers |-> throwers, exit |-> exit, rejected |-> rejected, id |-> 3 - peer.id]

\* a fresh run of a second runAnalysis call
NewRun(id, bytes, thr) ==
    [pc |-> "Idle", content |-> bytes, pos |-> 0, decoderPending |-> <<>>,
     buffer |-> <<>>, lines |-> <<>>, aborted |-> FALSE, log |-> <<>>,
     throwers |-> thr, exit |-> "none", rejected |-> FALSE, id |-> id]

\* a faulty variant of Switch: `buffer` is one variable of the module, shared
\* by the runs, instead of a local of each runStream
Switch_SharedBuffer ==
    /\ peer # NoPeer
    /\ pc # "Dispatching"
    /\ peer' = [ThisRun EXCEPT !.buffer = <<>>]
    /\ pc' = peer.pc
    /\ content' = peer.content
    /\ pos' = peer.pos
    /\ decoderPending' = peer.decoderPending
    /\ buffer' = buffer
    /\ lines' = peer.lines
    /\ aborted' = peer.aborted
    /\ log' = peer.log
    /\ throwers' = peer.throwers
    /\ exit' = peer.exit
    /\ rejected' = peer.rejected
    /\ UNCHANGED <<request, sent, analysisState, formVars>>

\* the event loop turns to the other run: each runAnalysis call has its own
\* controller, reader, decoder and buffer, and a run yields only at an await
\* (the for loop over the lines of a chunk is synchronous)
Switch ==
    /\ peer # NoPeer
    /\ pc # "Dispatching"
    /\ peer' = ThisRun
    /\ pc' = peer.pc
    /\ content' = peer.content
    /\ pos' = peer.pos
    /\ decoderPending' = peer.decoderPending
    /\ buffer' = peer.buffer
    /\ lines' = peer.lines
    /\ aborted' = peer.aborted
    /\ log' = peer.log
    /\ throwers' = peer.throwers
    /\ exit' = peer.exit
    /\ rejected' = peer.rejected
    /\ UNCHANGED <<request, sent, analysisState, formVars>>

\* two runs whose chunks arrive interleaved
NextTwo ==
    \/ Next
    \/ Switch

Init == InitOn(LineTexts)

Spec == Init /\ [][Next]_vars

InitError == InitOn(ErrorLineTexts)

SpecError == InitError /\ [][Next]_vars

InitShape == InitOn(ShapeLineTexts)

SpecShape == InitShape /\ [][Next]_vars

InitFraming == InitOn(FramingLineTexts)

SpecFraming == InitFraming /\ [][Next]_vars

\* the requests runAnalysis may be called with: initialCash and
\* marginRequirement are optional numbers >= 0
Requests ==
    { [DefaultRequest EXCEPT !.initialCash = cash, !.marginRequirement = margin] :
        cash \in {Absent, Some(0), Some(50000)}, margin \in {Absent, Some(0), Some(1)} }

InitRequest ==
    /\ pc = "Idle"
    /\ content = Encode(Join(<<ProgressA, CompleteR>>))
    /\ throwers = {}
    /\ pos = 0
    /\ decoderPending = <<>>
    /\ buffer = <<>>
    /\ lines = <<>>
    /\ aborted = FALSE
    /\ log = <<>>
    /\ exit = "none"
    /\ rejected = FALSE
    /\ peer = NoPeer
    /\ request \in Requests
    /\ sent = <<>>
    /\ analysisState = NoUI
    /\ NoForm

SpecRequest == InitRequest /\ [][Next]_vars

----------------------------------------------------------------------------
(* The App: the form, the Start / Cancel button and the runs it starts *)

\* validateForm(): the fields that are refused
ValidateForm_NoModel(form) ==
    (IF Len(form.selectedStocks) = 0 THEN {"stocks"} ELSE {})
        \cup (IF form.selectedAnalysts = {} THEN {"analysts"} ELSE {})
        \cup (IF form.selectedProvider = "" THEN {"provider"} ELSE {})

ValidateForm(form) ==
    (IF Len(form.selectedStocks) = 0 THEN {"stocks"} ELSE {})
        \cup (IF form.selectedAnalysts = {} THEN {"analysts"} ELSE {})
        \cup (IF form.selectedProvider = "" THEN {"provider"} ELSE {})
        \cup (IF form.selectedModel = "" THEN {"model"} ELSE {})

\* AnalysisPanel.canStartAnalysis(): the Start button is not disabled
CanStartAnalysis ==
    /\ Len(formData.selectedStocks) > 0
    /\ formData.selectedAnalysts # {}
    /\ formData.selectedProvider # ""
    /\ formData.selectedModel # ""
    /\ ~analysisState.isRunning

\* the analysisRequest built from the form
AnalysisRequest(form) ==
    [tickers |-> form.selectedStocks, selectedAnalysts |-> form.selectedAnalysts,
     modelName |-> form.selectedModel, modelProvider |-> form.selectedProvider,
     initialCash |-> form.initialCash, marginRequirement |-> form.marginRequirement]

\* setAnalysisState of handleStartAnalysis: the reset and the cancel function
\* of the run just started (the number of that run)
StartedState_NoReset(s, id) == [s EXCEPT !.isRunning = TRUE, !.cancelFunction = Some(id)]

StartedState(s, id) ==
    [s EXCEPT !.isRunning = TRUE, !.progress = <<>>, !.result = Null, !.error = Null,
              !.cancelFunction = Some(id)]

\* handleStartAnalysis(): validate, reset the state, call runAnalysis (which
\* issues the fetch, as in Start) and keep its cancel function. The model
\* holds two runs: the new run takes the place that is still Idle.
HandleStartAnalysis ==
    /\ pc # "Dispatching"
    /\ formErrors' = ValidateForm(formData)
    /\ IF ValidateForm(formData) # {}
       THEN UNCHANGED <<pc, content, pos, decoderPending, buffer, lines, aborted, log, throwers,
                        exit, rejected, peer, request, sent, analysisState>>
       ELSE /\ pc = "Idle" \/ peer.pc = "Idle"
            /\ request' = AnalysisRequest(formData)
            /\ sent' = Append(sent, RequestBody(AnalysisRequest(formData)))
            /\ IF pc = "Idle"
               THEN /\ pc' = "Fetching"
                    /\ analysisState' = StartedState(analysisState, ThisRun.id)
                    /\ UNCHANGED <<content, pos, decoderPending, buffer, lines, aborted, log,
                                   throwers, exit, rejected, peer>>
               ELSE /\ peer' = ThisRun
                    /\ analysisState' = StartedState(analysisState, peer.id)
                    /\ pc' = "Fetching"
                    /\ content' = peer.content
                    /\ pos' = peer.pos
                    /\ decoderPending' = peer.decoderPending
                    /\ buffer' = peer.buffer
                    /\ lines' = peer.lines
                    /\ aborted' = peer.aborted
                    /\ log' = peer.log
                    /\ throwers' = peer.throwers
                    /\ exit' = peer.exit
                    /\ rejected' = peer.rejected
    /\ UNCHANGED <<formData, models, loads, searchQuery, searchResults, showResults, searches>>

\* a click on 'Start Analysis': the button is shown while no analysis is
\* running and is disabled unless canStartAnalysis()
ClickStart ==
    /\ ~analysisState.isRunning
    /\ CanStartAnalysis
    /\ HandleStartAnalysis

\* a faulty variant of HandleCancelAnalysis: the cancel function is not called
HandleCancelAnalysis_NoAbort ==
    /\ pc # "Dispatching"
    /\ analysisState' = [analysisState EXCEPT !.isRunning = FALSE, !.cancelFunction = Absent]
    /\ UNCHANGED <<pc, content, pos, decoderPending, buffer, lines, aborted, log, throwers, exit,
                   rejected, peer, request, sent, formVars>>

\* handleCancelAnalysis(): call the stored cancel function, if any, and leave
\* the running state
HandleCancelAnalysis ==
    /\ pc # "Dispatching"
    /\ analysisState' = [analysisState EXCEPT !.isRunning = FALSE, !.cancelFunction = Absent]
    /\ IF analysisState.cancelFunction = Absent
       THEN UNCHANGED <<aborted, peer>>
       ELSE IF analysisState.cancelFunction = Some(ThisRun.id)
       THEN aborted' = TRUE /\ peer' = peer
       ELSE aborted' = aborted /\ peer' = [peer EXCEPT !.aborted = TRUE]
    /\ UNCHANGED <<pc, content, pos, decoderPending, buffer, lines, log, throwers, exit,
                   rejected, request, sent, formVars>>

\* a click on 'Cancel Analysis': the button is shown while an analysis is running
ClickCancel ==
    /\ analysisState.isRunning
    /\ HandleCancelAnalysis

\* the App and the runs it has started
NextUI ==
    \/ ClickStart
    \/ ClickCancel
    \/ FetchReject
    \/ FetchResolve
    \/ ReadChunk
    \/ ReadDone
    \/ ReadError
    \/ ProcessLine
    \/ AbortObserved
    \/ Switch

\* the bodies the backend answers the App with
UIStreams == {Encode(Join(<<ProgressA, CompleteR>>)), Encode(Join(<<ProgressA, ErrorM>>))}

\* useState of analysisState; cancelFunction is Absent or Some(the number of
\* the run it cancels)
InitialAnalysisState ==
    [isRunning |-> FALSE, progress |-> <<>>, result |-> Null, error |-> Null,
     cancelFunction |-> Absent]

\* a form that is filled in
FilledForm ==
    [selectedStocks |-> <<"AAPL">>, selectedAnalysts |-> {"buffett"},
     selectedProvider |-> "A", selectedModel |-> "m1",
     initialCash |-> Some(DefaultInitialCash), marginRequirement |-> Some(0)]

InitUI ==
    /\ pc = "Idle"
    /\ content \in UIStreams
    /\ throwers = {}
    /\ pos = 0
    /\ decoderPending = <<>>
    /\ buffer = <<>>
    /\ lines = <<>>
    /\ aborted = FALSE
    /\ log = <<>>
    /\ exit = "none"
    /\ rejected = FALSE
    /\ \E bytes \in UIStreams : peer = NewRun(2, bytes, {})
    /\ request = DefaultRequest
    /\ sent = <<>>
    /\ analysisState = InitialAnalysisState
    /\ formData = FilledForm
    /\ formErrors = {}
    /\ models = <<>>
    /\ loads = {}
    /\ searchQuery = ""
    /\ searchResults = <<>>
    /\ showResults = FALSE
    /\ searches = {}

SpecUI == InitUI /\ [][NextUI]_vars

\* the forms handleStartAnalysis may find: every field empty or filled
Forms ==
    [selectedStocks : {<<>>, <<"AAPL">>}, selectedAnalysts : {{}, {"buffett"}},
     selectedProvider : {"", "A"}, selectedModel : {"", "m1"},
     initialCash : {Some(DefaultInitialCash)}, marginRequirement : {Some(0)}]

\* handleStartAnalysis as a function of the form: it is invoked whatever the
\* form holds, without relying on the button being disabled
NextForm ==
    \/ HandleStartAnalysis
    \/ ClickCancel
    \/ FetchReject
    \/ FetchResolve
    \/ ReadChunk
    \/ ReadDone
    \/ ReadError
    \/ ProcessLine
    \/ AbortObserved
    \/ Switch

InitForm ==
    /\ pc = "Idle"
    /\ content = Encode(Join(<<ProgressA, CompleteR>>))
    /\ throwers = {}
    /\ pos = 0
    /\ decoderPending = <<>>
    /\ buffer = <<>>
    /\ lines = <<>>
    /\ aborted = FALSE
    /\ log = <<>>
    /\ exit = "none"
    /\ rejected = FALSE
    /\ peer = NewRun(2, Encode(Join(<<ErrorM>>)), {})
    /\ request = DefaultRequest
    /\ sent = <<>>
    /\ analysisState = InitialAnalysisState
    /\ formData \in Forms
    /\ formErrors = {}
    /\ models = <<>>
    /\ loads = {}
    /\ searchQuery = ""
    /\ searchResults = <<>>
    /\ showResults = FALSE
    /\ searches = {}

SpecForm == InitForm /\ [][NextForm]_vars

----------------------------------------------------------------------------
(* StockSelector: search field, list of results, selected stocks *)

\* the tickers the backend knows
Tickers == <<"AAPL", "MSFT", "NVDA">>

\* the answers of the backend to a search: lists of tickers
SearchAnswers == {<<>>, <<"AAPL">>, Tickers}

\* what can be typed into the search field
Queries == {"", "A"}

\* the run and the analysis panel, which the selectors do not touch
runVars == <<pc, content, pos, decoderPending, buffer, lines, aborted, log, throwers, exit,
             rejected, peer, request, sent, analysisState>>

Contains(seq, x) == \E i \in DOMAIN seq : seq[i] = x

Range(seq) == { seq[i] : i \in DOMAIN seq }

\* results.filter(stock => !selected.some(s => s.ticker === stock.ticker))
RECURSIVE Without(_, _)
Without(seq, selected) ==
    IF seq = <<>> THEN <<>>
    ELSE IF Contains(selected, Head(seq)) THEN Without(Tail(seq), selected)
    ELSE <<Head(seq)>> \o Without(Tail(seq), selected)

\* a call of a debounced search: its query, the selectedStocks its closure
\* captured (the debounced function is rebuilt when selectedStocks changes)
\* and whether it still waits for its 300 ms or awaits the backend
Search(query, selected, phase) == [query |-> query, selected |-> selected, phase |-> phase]

\* useEffect: debouncedSearch(query) on the debounced function of `selected`;
\* a call that still waits on the same function is replaced
Debounced(pending, query, selected) ==
    { s \in pending : ~(s.phase = "waiting" /\ s.selected = selected) }
        \cup {Search(query, selected, "waiting")}

\* handleSearchChange: the user edits the search field
HandleSearchChange ==
    /\ Len(formData.selectedStocks) < MaxSelections
    /\ \E q \in Queries :
         /\ q # searchQuery
         /\ searchQuery' = q
         /\ searches' = Debounced(searches, q, formData.selectedStocks)
    /\ Cardinality(searches') <= MaxSearches
    /\ UNCHANGED <<runVars, formData, formErrors, models, loads, searchResults, showResults>>

\* the 300 ms of a debounced call are over: an empty query clears the
\* results, any other query is sent to the backend
DebounceFires ==
    /\ \E s \in searches :
         /\ s.phase = "waiting"
         /\ IF s.query = ""
            THEN /\ searchResults' = <<>>
                 /\ showResults' = FALSE
                 /\ searches' = searches \ {s}
            ELSE /\ searches' = (searches \ {s}) \cup {Search(s.query, s.selected, "inflight")}
                 /\ UNCHANGED <<searchResults, showResults>>
    /\ UNCHANGED <<runVars, formData, formErrors, models, loads, searchQuery>>

\* searchStocks (and getCompanyFacts) answer: the results are filtered against
\* the selection the closure captured, stored and shown
SearchResolves ==
    /\ \E s \in searches, answer \in SearchAnswers :
         /\ s.phase = "inflight"
         /\ searchResults' = Without(answer, s.selected)
         /\ showResults' = TRUE
         /\ searches' = searches \ {s}
    /\ UNCHANGED <<runVars, formData, formErrors, models, loads, searchQuery>>

\* the search fails: catch
SearchFails ==
    /\ \E s \in searches :
         /\ s.phase = "inflight"
         /\ searchResults' = <<>>
         /\ searches' = searches \ {s}
    /\ UNCHANGED <<runVars, formData, formErrors, models, loads, searchQuery, showResults>>

\* a faulty variant of HandleStockSelect: no test of the number of selections
HandleStockSelect_NoLimit(stock) ==
    /\ formData' = [formData EXCEPT !.selectedStocks = Append(@, stock)]
    /\ searchQuery' = ""
    /\ showResults' = FALSE
    /\ searches' = Debounced(searches, "", Append(formData.selectedStocks, stock))
    /\ UNCHANGED <<runVars, formErrors, models, loads, searchResults>>

\* handleStockSelect(stock), and the effect that follows the new selection:
\* debouncedSearch('') on the rebuilt debounced function
HandleStockSelect(stock) ==
    IF Len(formData.selectedStocks) >= MaxSelections
    THEN UNCHANGED vars
    ELSE /\ formData' = [formData EXCEPT !.selectedStocks = Append(@, stock)]
         /\ searchQuery' = ""
         /\ showResults' = FALSE
         /\ searches' = Debounced(searches, "", Append(formData.selectedStocks, stock))
         /\ UNCHANGED <<runVars, formErrors, models, loads, searchResults>>

\* a click on an entry of the list of results, which is rendered while
\* showResults is true
ClickResult ==
    /\ showResults
    /\ \E i \in DOMAIN searchResults : HandleStockSelect(searchResults[i])
    /\ Cardinality(searches') <= MaxSearches

\* stocks.filter(stock => stock.ticker !== tickerToRemove)
RECURSIVE Remove(_, _)
Remove(seq, ticker) ==
    IF seq = <<>> THEN <<>>
    ELSE IF Head(seq) = ticker THEN Remove(Tail(seq), ticker)
    ELSE <<Head(seq)>> \o Remove(Tail(seq), ticker)

\* handleStockRemove(ticker): the delete icon of a chip; the effect that
\* follows searches the current query again on the rebuilt function
HandleStockRemove ==
    /\ \E i \in DOMAIN formData.selectedStocks :
         LET rest == Remove(formData.selectedStocks, formData.selectedStocks[i])
         IN  /\ formData' = [formData EXCEPT !.selectedStocks = rest]
             /\ searches' = Debounced(searches, searchQuery, rest)
    /\ Cardinality(searches') <= MaxSearches
    /\ UNCHANGED <<runVars, formErrors, models, loads, searchQuery, searchResults, showResults>>

\* handleInputFocus
HandleInputFocus ==
    /\ Len(formData.selectedStocks) < MaxSelections
    /\ searchResults # <<>>
    /\ showResults' = TRUE
    /\ UNCHANGED <<runVars, formData, formErrors, models, loads, searchQuery, searchResults, searches>>

\* handleInputBlur: 200 ms later the list is hidden
HandleInputBlur ==
    /\ showResults
    /\ showResults' = FALSE
    /\ UNCHANGED <<runVars, formData, formErrors, models, loads, searchQuery, searchResults, searches>>

NextStocks ==
    \/ HandleSearchChange
    \/ DebounceFires
    \/ SearchResolves
    \/ SearchFails
    \/ ClickResult
    \/ HandleStockRemove
    \/ HandleInputFocus
    \/ HandleInputBlur

InitStocks ==
    /\ pc = "Idle"
    /\ content = <<>>
    /\ throwers = {}
    /\ pos = 0
    /\ decoderPending = <<>>
    /\ buffer = <<>>
    /\ lines = <<>>
    /\ aborted = FALSE
    /\ log = <<>>
    /\ exit = "none"
    /\ rejected = FALSE
    /\ peer = NoPeer
    /\ request = DefaultRequest
    /\ sent = <<>>
    /\ analysisState = InitialAnalysisState
    /\ formData = [FilledForm EXCEPT !.selectedStocks = <<>>]
    /\ formErrors = {}
    /\ models = <<>>
    /\ loads = {}
    /\ searchQuery = ""
    /\ searchResults = <<>>
    /\ showResults = FALSE
    /\ searches = {Search("", <<>>, "waiting")}

SpecStocks == InitStocks /\ [][NextStocks]_vars

----------------------------------------------------------------------------
(* App: the provider, its models and the selected model *)

\* the providers offered, and '' for none
Providers == {"", "A", "B"}

\* an LLMModel
Model(id, provider) == [id |-> id, provider |-> provider]

\* the models a provider serves
ModelsOf(provider) ==
    IF provider = "A" THEN <<Model("m1", "A")>> ELSE <<Model("m2", "B")>>

\* what a load for a provider may answer: its models, or none (a local
\* provider that is not running)
LoadAnswers(provider) == {<<>>, ModelsOf(provider)}

\* the stocks and the search field, which loadModels does not touch
stockVars == <<searchQuery, searchResults, showResults, searches>>

\* a call of loadModels that awaits its response: the provider it was called
\* with and the formData.selectedModel of the render whose effect called it
Load(provider, selectedModel) == [provider |-> provider, selectedModel |-> selectedModel]

\* the provider is changed in ProviderSelector, and the effect on
\* formData.selectedProvider runs: loadModels(provider), or no provider
SelectProvider ==
    /\ \E p \in Providers :
         /\ p # formData.selectedProvider
         /\ IF p # ""
            THEN /\ formData' = [formData EXCEPT !.selectedProvider = p]
                 /\ loads' = loads \cup {Load(p, formData.selectedModel)}
                 /\ UNCHANGED models
            ELSE /\ formData' = [formData EXCEPT !.selectedProvider = p, !.selectedModel = ""]
                 /\ models' = <<>>
                 /\ UNCHANGED loads
    /\ Cardinality(loads') <= MaxLoads
    /\ UNCHANGED <<runVars, formErrors, stockVars>>

\* loadModels after its await: setModels(data), and the selected model is
\* reset if the closure's formData.selectedModel is not in data
LoadResolves ==
    /\ \E l \in loads : \E data \in LoadAnswers(l.provider) :
         /\ models' = data
         /\ IF l.selectedModel # "" /\ ~\E i \in DOMAIN data : data[i].id = l.selectedModel
            THEN formData' = [formData EXCEPT !.selectedModel = ""]
            ELSE UNCHANGED formData
         /\ loads' = loads \ {l}
    /\ UNCHANGED <<runVars, formErrors, stockVars>>

\* loadModels: catch
LoadFails ==
    /\ \E l \in loads :
         /\ models' = <<>>
         /\ loads' = loads \ {l}
    /\ UNCHANGED <<runVars, formData, formErrors, stockVars>>

\* a model is chosen in ModelSelector, which is disabled without a provider
\* or without models
SelectModel ==
    /\ formData.selectedProvider # ""
    /\ models # <<>>
    /\ \E i \in DOMAIN models :
         /\ models[i].id # formData.selectedModel
         /\ formData' = [formData EXCEPT !.selectedModel = models[i].id]
    /\ UNCHANGED <<runVars, formErrors, models, loads, stockVars>>

NextModels ==
    \/ SelectProvider
    \/ LoadResolves
    \/ LoadFails
    \/ SelectModel

\* the App after its first render: no provider, and the effect has emptied
\* the models
InitModels ==
    /\ pc = "Idle"
    /\ content = <<>>
    /\ throwers = {}
    /\ pos = 0
    /\ decoderPending = <<>>
    /\ buffer = <<>>
    /\ lines = <<>>
    /\ aborted = FALSE
    /\ log = <<>>
    /\ exit = "none"
    /\ rejected = FALSE
    /\ peer = NoPeer
    /\ request = DefaultRequest
    /\ sent = <<>>
    /\ analysisState = InitialAnalysisState
    /\ formData = [FilledForm EXCEPT !.selectedProvider = "", !.selectedModel = ""]
    /\ formErrors = {}
    /\ models = <<>>
    /\ loads = {}
    /\ searchQuery = ""
    /\ searchResults = <<>>
    /\ showResults = FALSE
    /\ searches = {}

SpecModels == InitModels /\ [][NextModels]_vars

\* the bodies of the two concurrent runs
StreamOne == Encode(Join(<<ProgressA, CompleteR>>))

StreamTwo == Encode(Join(<<Event(ProgressB), ProgressA>>))

InitTwo ==
    /\ pc = "Idle"
    /\ content = StreamOne
    /\ throwers \in ThrowerSets
    /\ pos = 0
    /\ decoderPending = <<>>
    /\ buffer = <<>>
    /\ lines = <<>>
    /\ aborted = FALSE
    /\ log = <<>>
    /\ exit = "none"
    /\ rejected = FALSE
    /\ peer = NewRun(2, StreamTwo, {})
    /\ request = DefaultRequest
    /\ sent = <<>>
    /\ analysisState = NoUI
    /\ NoForm

SpecTwo == InitTwo /\ [][NextTwo]_vars

----------------------------------------------------------------------------
(* Observations on a run *)

TerminalCallbacks == {"onComplete", "onError"}

\* the positions of the log that hold a terminal callback
Terminals(l) == { i \in 1..Len(l) : l[i].cb \in TerminalCallbacks }

Streaming == pc \in {"Fetching", "Reading", "Dispatching"}

\* the response body is still open: it was obtained, and it has not ended,
\* failed or been aborted; nothing but controller.abort() closes it from this
\* side (no reader.cancel(), no releaseLock()), and a response whose status is
\* refused is left unread
TransportOpen ==
    /\ ~aborted
    /\ \/ pc \in {"Reading", "Dispatching"}
       \/ exit = "returned"
       \/ exit = "failed" /\ log[Len(log)].arg = HttpErrorMsg

\* the message the specification fixes for a body that ends with no terminal frame
StreamEndedMsg == "Stream ended unexpectedly"

----------------------------------------------------------------------------
(* C1 *)

\* C1: over one run, onComplete and onError are invoked at most once in total.
C1_AtMostOneTerminal == Cardinality(Terminals(log)) <= 1

----------------------------------------------------------------------------
(* C2 *)

\* C2: once cancel() has been invoked no callback is invoked any more: from a
\* state with the signal aborted, no step adds to the log.
C2_SilentAfterCancel == [][aborted => log' = log]_vars

----------------------------------------------------------------------------
(* C3 *)

\* C3: when the body ends (read returns done) with no complete or error frame
\* dispatched and no cancel, onError has been invoked exactly once, with the
\* fixed stream-ended message.
C3_EndOfStreamReported ==
    (exit = "eof" /\ ~aborted
        /\ \A i \in Terminals(log) : log[i] = Call("onError", StreamEndedMsg))
    => /\ log # <<>>
       /\ log[Len(log)] = Call("onError", StreamEndedMsg)
       /\ Cardinality(Terminals(log)) = 1

----------------------------------------------------------------------------
(* C4 *)

\* C4: every onProgress comes strictly before the terminal callback: once
\* onComplete or onError has been invoked, no step adds to the log.
C4_NothingAfterTerminal == [][Terminals(log) # {} => log' = log]_vars

----------------------------------------------------------------------------
(* C5 *)

\* cancel() was invoked while the run was live and before the reader handed
\* out any byte (fetch pending, or body open with no chunk read)
CancelledBeforeFirstByte == aborted /\ pos = 0 /\ exit \in {"none", "aborted"}

\* C5: the cancel handle exists as soon as runAnalysis has returned, with the
\* fetch still pending, and a run cancelled before its first byte invokes no
\* callback at all.
C5_CancelBeforeFirstByte ==
    /\ (pc = "Fetching" /\ ~aborted) => ENABLED Cancel
    /\ CancelledBeforeFirstByte => log = <<>>

\* a run with a non-empty body, cancelled before its first byte, has ended silently
C5_Witness ==
    /\ exit = "aborted"
    /\ pos = 0
    /\ content # <<>>
    /\ log = <<>>

----------------------------------------------------------------------------
(* C6 *)

\* the bytes the reader has handed out so far
Delivered == SubSeq(content, 1, pos)

RECURSIVE DispatchAll(_, _)
DispatchAll(ls, thr) ==
    IF ls = <<>> THEN <<>>
    ELSE LET d == DispatchLine(Head(ls), thr)
         IN  IF d.ret THEN d.calls ELSE d.calls \o DispatchAll(Tail(ls), thr)

\* the callbacks invoked when `bytes` arrive as one single chunk
WholeLog(bytes, thr) == DispatchAll(Popped(Split(Decode(<<>>, bytes).text)), thr)

\* C6: however the delivered bytes were cut into chunks, between two reads
\* and at the end of a run that met no transport failure the callbacks invoked
\* are exactly those of the same bytes arriving as one chunk.
C6_ChunkBoundaryIndependent ==
    (pc = "Reading" \/ exit \in {"eof", "returned", "aborted"})
    => log = WholeLog(Delivered, throwers)

\* the lines awaiting dispatch and the buffered rest are together longer than
\* any one chunk: the frame now dispatched was assembled from several chunks
C6_Witness ==
    /\ pc = "Dispatching"
    /\ DispatchLine(NextLine(lines), throwers).calls # <<>>
    /\ Len(Encode(Join(lines) \o buffer)) > MaxChunk

----------------------------------------------------------------------------
(* C7 *)

IsPrefix(a, b) == Len(a) <= Len(b) /\ SubSeq(b, 1, Len(a)) = a

RECURSIVE CallsOf(_, _)
\* the callback of every frame among the lines, in the order of the lines
CallsOf(ls, thr) ==
    IF ls = <<>> THEN <<>>
    ELSE DispatchLine(Head(ls), thr).calls \o CallsOf(Tail(ls), thr)

\* the callbacks of the frames of the whole body, in stream order
FrameCalls == CallsOf(Popped(Split(Decode(<<>>, content).text)), throwers)

\* the log without the onError of a transport failure
FrameLog == IF exit = "failed" THEN SubSeq(log, 1, Len(log) - 1) ELSE log

ABC == Encode(Join(<<ProgressA, Event(ProgressB), CompleteR>>))

\* C7: callbacks are invoked in the order of their frames in the byte stream,
\* none skipped and none repeated; the next chunk is read only when every line
\* of the current one has been visited; and the frames progress A, progress B,
\* complete C give exactly onProgress(A), onProgress(B), onComplete(C).
C7_StreamOrder ==
    /\ IsPrefix(FrameLog, FrameCalls)
    /\ pc = "Reading" => lines = <<>>
    /\ (content = ABC /\ exit = "returned")
       => log = <<Call("onProgress", "a"), Call("onProgress", EAcute),
                  Call("onComplete", "r")>>

C7_Witness ==
    /\ content = ABC
    /\ exit = "returned"
    /\ Len(log) = 3

----------------------------------------------------------------------------
(* C8 *)

\* a non-blank 'data: ' line whose rest JSON.parse rejects
IsMalformedData(line) ==
    /\ Trim(line) # <<>>
    /\ StartsWith(line, Prefix)
    /\ ~JSONParse(Slice(line, PrefixLen)).ok

ATruncatedB == Encode(Join(<<ProgressA, Truncated, Event(ProgressB)>>))

\* C8: the loop iteration on a malformed 'data: ' line invokes no callback and
\* leaves the run streaming; with a malformed line between two progress frames
\* both frames are dispatched, in order.
C8_MalformedSkipped ==
    /\ [][(pc = "Dispatching" /\ IsMalformedData(NextLine(lines)))
            => (log' = log /\ pc' \in {"Reading", "Dispatching"} /\ exit' = "none")]_vars
    /\ []((content = ATruncatedB /\ pos = Len(content) /\ pc = "Reading")
            => log = <<Call("onProgress", "a"), Call("onProgress", EAcute)>>)

C8_Witness ==
    /\ content = ATruncatedB
    /\ pos = Len(content)
    /\ pc = "Reading"
    /\ log = <<Call("onProgress", "a"), Call("onProgress", EAcute)>>

----------------------------------------------------------------------------
(* C9 *)

\* the messages a transport failure is reported with
TransportMsgs ==
    ({HttpErrorMsg, NoReaderMsg, FallbackMsg} \cup FetchErrorMsgs \cup ReadErrorMsgs) \ {""}

\* C9: a run that ended on a transport failure has reported it with one
\* onError carrying the failure's message, as its last callback (its only
\* terminal callback when no callback throws), and a run that has ended reads
\* no further chunk and invokes no further callback.
C9_TransportFailureReported ==
    /\ [](exit = "failed"
            => /\ log # <<>>
               /\ log[Len(log)].cb = "onError"
               /\ log[Len(log)].arg \in TransportMsgs
               /\ throwers = {} => Cardinality(Terminals(log)) = 1)
    /\ [][pc = "Done" => (pc' = "Done" /\ log' = log /\ pos' = pos)]_vars

\* a read failed mid-stream, after a progress frame had been dispatched
C9_Witness ==
    /\ exit = "failed"
    /\ pos > 0
    /\ Len(log) = 2
    /\ log[1].cb = "onProgress"
    /\ log[2] = Call("onError", "network error")

----------------------------------------------------------------------------
(* C10 *)

\* a 'data: ' line carrying an object of type error
IsErrorFrame(line) ==
    /\ Trim(line) # <<>>
    /\ StartsWith(line, Prefix)
    /\ LET d == JSONParse(Slice(line, PrefixLen))
       IN  d.ok /\ ~d.isNull /\ d.type = "error"

\* its message member (Undefined when absent)
MessageOf(line) == JSONParse(Slice(line, PrefixLen)).member

\* C10 as stated: an error frame invokes onError once, with its message when
\* the member is present and with the fallback only when it is absent.
C10_FallbackOnlyWhenAbsent ==
    [][(pc = "Dispatching" /\ IsErrorFrame(NextLine(lines)))
        => log' = Append(log, Call("onError",
                    IF MessageOf(NextLine(lines)) = Undefined
                    THEN FallbackMsg ELSE MessageOf(NextLine(lines))))]_vars

\* C10 amended: an error frame invokes onError once, with its message when the
\* member is present and not empty, and with the fallback when the member is
\* absent or the empty string.
C10_FallbackWhenAbsentOrEmpty ==
    [][(pc = "Dispatching" /\ IsErrorFrame(NextLine(lines)))
        => log' = Append(log, Call("onError",
                    IF MessageOf(NextLine(lines)) \in {Undefined, ""}
                    THEN FallbackMsg ELSE MessageOf(NextLine(lines))))]_vars

\* an error frame with an empty message has been dispatched
C10_Witness ==
    /\ content = Encode(Join(<<ErrorEmpty>>))
    /\ log = <<Call("onError", FallbackMsg)>>

----------------------------------------------------------------------------
(* C11 *)

\* the terminal state the caller has been shown: Completed or Failed by the
\* first terminal callback, Canceled by a cancel() that came before any
FirstTerminal(l) == l[CHOOSE i \in Terminals(l) : \A j \in Terminals(l) : i <= j]

Outcome ==
    IF Terminals(log) # {}
    THEN IF FirstTerminal(log).cb = "onComplete" THEN "Completed" ELSE "Failed"
    ELSE IF aborted THEN "Canceled" ELSE "None"

\* C11: chunks are read only while the run is streaming, and once the run is
\* Completed, Failed or Canceled nothing changes that: the state stays, no
\* chunk is read and no callback is invoked, whatever cancel() is called.
C11_TerminalStatesAbsorbing ==
    [][ /\ (pos' # pos => Streaming /\ Outcome = "None")
        /\ (Outcome # "None" => Outcome' = Outcome /\ log' = log /\ pos' = pos) ]_vars

----------------------------------------------------------------------------
(* C12 *)

\* the log a run has at a point between two reads or at its end, from the
\* bytes it has been delivered itself
RunLogOwn(r) ==
    (r.pc = "Reading" \/ r.exit \in {"eof", "returned", "aborted"})
        => r.log = WholeLog(SubSeq(r.content, 1, r.pos), r.throwers)

\* C12: with two runs whose chunks interleave in any order, the callbacks of
\* each run are those of its own bytes alone, whatever the other run has read
\* and whether or not the other run was cancelled; cancel() of one run sets
\* the token of that run only, and a run that is not cancelled can go on reading.
C12_RunsIndependent ==
    /\ RunLogOwn(ThisRun)
    /\ RunLogOwn(peer)
    /\ (pc = "Reading" /\ ~aborted /\ pos < Len(content)) => ENABLED ReadChunk

\* one run was cancelled after its first bytes, the other one, interleaved
\* with it, has delivered its whole body
C12_Witness ==
    /\ peer.id = 2
    /\ peer.exit = "aborted"
    /\ peer.pos > 0
    /\ peer.buffer # <<>>
    /\ exit = "returned"
    /\ log = WholeLog(StreamOne, throwers)
    /\ Len(log) = 2

----------------------------------------------------------------------------
(* C13 *)

NullTruncatedA == Encode(Join(<<NullPayload, Truncated, ProgressA>>))

\* C13: runAnalysis returns its cancel function without throwing, and no
\* failure inside the run leaves runStream as an exception: a transport
\* failure ends the run with onError, a malformed frame or a payload that is
\* not an object is skipped; runStream's promise is rejected only by an
\* exception of the caller's own onError, thrown while the failure is reported.
C13_NoExceptionEscapes ==
    /\ pc = "Idle" => ENABLED Start
    /\ pc # "Done" => ~rejected
    /\ exit = "failed" => log # <<>> /\ log[Len(log)].cb = "onError"
    /\ rejected => exit = "failed" /\ "onError" \in throwers

\* a null payload and a truncated frame were skipped, the frame after them was
\* dispatched, then the transport failed and was reported: nothing was thrown
\* out of the run
C13_Witness ==
    /\ content = NullTruncatedA
    /\ pos = Len(content)
    /\ throwers = {}
    /\ exit = "failed"
    /\ log = <<Call("onProgress", "a"), Call("onError", "network error")>>
    /\ ~rejected

----------------------------------------------------------------------------
(* C14 *)

Count(x, seq) == Cardinality({ i \in DOMAIN seq : seq[i] = x })

IsSuffix(a, b) == Len(a) <= Len(b) /\ SubSeq(b, Len(b) - Len(a) + 1, Len(b)) = a

\* the arguments the callbacks were invoked with
Args(l) == [ i \in DOMAIN l |-> l[i].arg ]

\* C14: while the run streams, the text decoded chunk by chunk is the text of
\* the delivered bytes decoded at once, wherever the chunks were cut: the
\* decoder holds back exactly the unfinished character, no U+FFFD appears, and
\* every two-byte character delivered so far is, exactly once, either in the
\* payload of a dispatched frame or in the text still to be dispatched.
C14_SplitCharacterDecodedOnce ==
    LET whole == Decode(<<>>, Delivered)
        waiting == Join(lines) \o buffer
    IN  (pc \in {"Reading", "Dispatching"}) =>
            /\ decoderPending = whole.pending
            /\ IsSuffix(waiting, whole.text)
            /\ Count(Replacement, whole.text) = 0
            /\ Count(Replacement, Args(log)) = 0
            /\ Count(EAcute, whole.text) = Count(EAcute, Args(log)) + Count(EAcute, waiting)

\* a chunk ended between the two bytes of a character, after a frame with the
\* same character has been dispatched
C14_Witness ==
    /\ pc = "Reading"
    /\ decoderPending = <<"C3">>
    /\ Count(EAcute, Args(log)) = 1
    /\ buffer = <<"d", "a", "t", "a", ":", SP, "{", "p">>

----------------------------------------------------------------------------
(* C15 *)

\* C15: once cancel() has been called no chunk is read and, if a chunk is
\* being processed, none of its remaining frames is dispatched.
C15_TokenCheckedBeforeDispatch ==
    [][ (aborted /\ pc \in {"Reading", "Dispatching"}) =>
            (pos' = pos /\ Len(log') = Len(log)) ]_vars

----------------------------------------------------------------------------
(* C16 *)

\* C16: after the dispatch of a complete or error frame no read is issued and
\* the response body is not left open.
C16_TransportReleased ==
    /\ Terminals(log) # {} /\ exit # "failed" => pc = "Done" /\ ~TransportOpen
    /\ exit = "returned" => ~ENABLED ReadChunk

----------------------------------------------------------------------------
(* C17 *)

KnownTypes == {"progress", "complete", "error"}

\* text is the JSON of a frame with one of the three types
IsKnownPayload(text) ==
    LET d == JSONParse(text)
    IN  d.ok /\ ~d.isNull /\ d.type \in KnownTypes

\* the line is a frame once trimmed
IsFrameTrimmed(line) ==
    /\ Trim(line) # <<>>
    /\ StartsWith(Trim(line), Prefix)
    /\ IsKnownPayload(Slice(Trim(line), PrefixLen))

\* the line is not blank and is a frame as it stands
IsFrameUntrimmed(line) ==
    /\ Trim(line) # <<>>
    /\ StartsWith(line, Prefix)
    /\ IsKnownPayload(Slice(line, PrefixLen))

\* C17 as stated: a line is dispatched if and only if, once trimmed, it is not
\* empty and starts with 'data: ' (so also with leading whitespace or a
\* trailing carriage return); blank and comment lines invoke nothing.
C17_ClassifiedOnTrimmedLine ==
    [][ pc = "Dispatching" =>
            ((log' # log) <=> IsFrameTrimmed(NextLine(lines))) ]_vars

\* C17 as amended: only the test for a blank line is made on the trimmed
\* line; a line that is not blank is dispatched if and only if the line as
\* extracted starts with 'data: '. A trailing carriage return is harmless, a
\* line with leading whitespace is skipped like a blank or a comment line.
C17_ClassifiedOnExtractedLine ==
    /\ [][ pc = "Dispatching" =>
              ((log' # log) <=> IsFrameUntrimmed(NextLine(lines))) ]_vars
    /\ [](IsFrameUntrimmed(TrailingCR) /\ ~IsFrameUntrimmed(LeadingSpace)
            /\ ~IsFrameUntrimmed(Comment) /\ ~IsFrameUntrimmed(Blank))

SpaceCommentCR == Encode(Join(<<LeadingSpace, Comment, TrailingCR>>))

\* a frame with leading whitespace and a comment line were skipped and the
\* frame with a trailing carriage return is being dispatched
C17_Witness ==
    /\ content = SpaceCommentCR
    /\ pc = "Dispatching"
    /\ lines = <<TrailingCR>>
    /\ log = <<>>
    /\ DispatchLine(NextLine(lines), throwers).calls = <<Call("onProgress", "a")>>

----------------------------------------------------------------------------
(* C18 *)

\* the line is a well-formed frame whose type is none of the three
IsIgnoredFrame(line) ==
    /\ Trim(line) # <<>>
    /\ StartsWith(line, Prefix)
    /\ LET d == JSONParse(Slice(line, PrefixLen))
       IN  d.ok /\ ~d.isNull /\ d.type \notin KnownTypes

UnknownNoTypeA == Encode(Join(<<UnknownType, NoType, ProgressA>>))

\* C18: the dispatch of a well-formed frame with an unknown type, or with no
\* type at all, invokes no callback and does not end the run: the loop goes on
\* with the next line, and a frame that follows is dispatched.
C18_UnknownTypeIgnored ==
    /\ [][ (pc = "Dispatching" /\ IsIgnoredFrame(NextLine(lines))) =>
              /\ log' = log
              /\ exit' = exit
              /\ lines' = RestLines(lines)
              /\ pc' \in {"Reading", "Dispatching"} ]_vars
    /\ [](IsIgnoredFrame(UnknownType) /\ IsIgnoredFrame(NoType))
    /\ []((content = UnknownNoTypeA /\ pos = Len(content) /\ pc = "Reading")
            => log = <<Call("onProgress", "a")>>)

\* the frame after an unknown type and a missing type has been dispatched
C18_Witness ==
    /\ content = UnknownNoTypeA
    /\ pos = Len(content)
    /\ pc = "Reading"
    /\ log = <<Call("onProgress", "a")>>

----------------------------------------------------------------------------
(* C19 *)

TypeOf(line) == JSONParse(Slice(line, PrefixLen)).type

IsTerminalFrame(line) ==
    IsFrameUntrimmed(line) /\ TypeOf(line) \in {"complete", "error"}

IsProgressFrame(line) ==
    IsFrameUntrimmed(line) /\ TypeOf(line) = "progress"

\* C19: the dispatch of a complete or error frame ends the run whether its
\* callback returns or throws; the dispatch of a progress frame invokes
\* onProgress once and goes on with the next line whether it returns or throws.
C19_TerminalDispatchEndsRun ==
    [][ /\ (pc = "Dispatching" /\ IsTerminalFrame(NextLine(lines))) =>
              (pc' = "Done" /\ exit' = "returned" /\ Len(log') = Len(log) + 1)
        /\ (pc = "Dispatching" /\ IsProgressFrame(NextLine(lines))) =>
              (lines' = RestLines(lines) /\ Len(log') = Len(log) + 1) ]_vars

----------------------------------------------------------------------------
(* C20 *)

\* the lines of the delivered bytes that end with a newline
TerminatedLines == Popped(Split(Decode(<<>>, Delivered).text))

\* C20: only lines whose newline has been delivered are dispatched, and when
\* the stream ends the text left in the buffer is dropped: the end of the
\* stream invokes no callback, whatever the buffer holds.
C20_UnterminatedLineDiscarded ==
    /\ [](IsPrefix(FrameLog, CallsOf(TerminatedLines, throwers)))
    /\ [][ (exit = "none" /\ exit' = "eof") => log' = log ]_vars

\* the stream ended while the buffer held a whole complete frame without its
\* newline: the frame was not dispatched
C20_Witness ==
    /\ exit = "eof"
    /\ buffer = CompleteR
    /\ log = <<Call("onProgress", "a")>>
    /\ Terminals(log) = {}

----------------------------------------------------------------------------
(* C21 *)

\* the stream of run r is neither cancelled nor terminated
Live(r) == r.pc \in {"Fetching", "Reading", "Dispatching"} /\ ~r.aborted

\* C21: at most one of the streams the App has started is neither cancelled
\* nor terminated; the Start button cannot be clicked while isRunning is
\* true, and isRunning is false only when no such stream is left (it was
\* ended by onComplete or onError, or aborted by handleCancelAnalysis).
C21_OneActiveStream ==
    /\ ~(Live(ThisRun) /\ Live(peer))
    /\ analysisState.isRunning => ~ENABLED ClickStart
    /\ ~analysisState.isRunning => ~Live(ThisRun) /\ ~Live(peer)

\* a second analysis is streaming while the stream of the first one, which
\* was cancelled, has not yet seen its abort
C21_Witness ==
    /\ analysisState.isRunning
    /\ Live(ThisRun)
    /\ pc = "Reading"
    /\ Len(analysisState.progress) = 1
    /\ peer.pc = "Reading"
    /\ peer.aborted
    /\ peer.log # <<>>

----------------------------------------------------------------------------
(* C22 *)

\* the run the App is waiting for: the one its cancel function belongs to
WaitedRun == IF analysisState.cancelFunction = Some(ThisRun.id) THEN ThisRun ELSE peer

\* C22: the App does not stay in the running state for a stream that has
\* ended: when the run it waits for is over (terminal frame, failure, end of
\* the body), isRunning is false. The callbacks set isRunning in the step
\* that ends the run, so a run that is over with isRunning still true stays so
\* until the user cancels.
C22_RunningStateLeft ==
    analysisState.isRunning => WaitedRun.pc # "Done"

----------------------------------------------------------------------------
(* C23 *)

AllFilled(form) ==
    /\ form.selectedStocks # <<>>
    /\ form.selectedAnalysts # {}
    /\ form.selectedProvider # ""
    /\ form.selectedModel # ""

\* the field names of the empty fields
EmptyFields(form) ==
    { f \in {"stocks", "analysts", "provider", "model"} :
        \/ f = "stocks" /\ form.selectedStocks = <<>>
        \/ f = "analysts" /\ form.selectedAnalysts = {}
        \/ f = "provider" /\ form.selectedProvider = ""
        \/ f = "model" /\ form.selectedModel = "" }

\* C23: a request is issued only from a form with at least one ticker, one
\* analyst, a provider and a model, and carries them; handleStartAnalysis on a
\* form with an empty field sets the form errors of exactly the empty fields
\* and neither issues a request nor changes analysisState or any run.
C23_StartOnlyWhenValid ==
    /\ [][ sent' # sent =>
              /\ AllFilled(formData)
              /\ Len(sent') = Len(sent) + 1
              /\ sent'[Len(sent')].tickers = formData.selectedStocks
              /\ sent'[Len(sent')].selected_agents = formData.selectedAnalysts
              /\ sent'[Len(sent')].model_provider = formData.selectedProvider
              /\ sent'[Len(sent')].model_name = formData.selectedModel ]_vars
    /\ [][ (HandleStartAnalysis /\ ~AllFilled(formData)) =>
              /\ formErrors' = EmptyFields(formData)
              /\ formErrors' # {}
              /\ UNCHANGED <<sent, analysisState, pc, peer, log, request>> ]_vars

\* handleStartAnalysis has refused a form whose only empty field is the model
C23_Witness ==
    /\ formData.selectedModel = ""
    /\ formErrors = {"model"}
    /\ sent = <<>>
    /\ pc = "Idle"
    /\ analysisState = InitialAnalysisState

----------------------------------------------------------------------------
(* C24 *)

\* C24: result and error are never both set; while an analysis is running
\* both are null (the start has reset them and the first terminal callback
\* ends the running state), and the progress shown is that of the run the
\* App waits for.
C24_ResultXorError ==
    /\ ~(analysisState.result # Null /\ analysisState.error # Null)
    /\ analysisState.isRunning =>
          /\ analysisState.result = Null
          /\ analysisState.error = Null
          /\ analysisState.progress = Args(WaitedRun.log)

\* a first analysis has completed, the second one, started after it, has
\* failed: the result of the first is gone
C24_Witness ==
    /\ peer.exit = "returned"
    /\ peer.log[Len(peer.log)].cb = "onComplete"
    /\ exit = "returned"
    /\ log[Len(log)].cb = "onError"
    /\ analysisState.error = "m"
    /\ analysisState.result = Null

----------------------------------------------------------------------------
(* C25 *)

\* C25: the selection never holds more than maxSelections stocks; a click on
\* a result leaves a full selection unchanged and otherwise appends exactly
\* the stock clicked; the delete icon removes exactly the entries with its
\* ticker.
C25_AtMostMaxSelections ==
    /\ [](Len(formData.selectedStocks) <= MaxSelections)
    /\ [][ Len(formData.selectedStocks') > Len(formData.selectedStocks) =>
              /\ Len(formData.selectedStocks) < MaxSelections
              /\ \E i \in DOMAIN searchResults :
                    formData.selectedStocks' = Append(formData.selectedStocks, searchResults[i]) ]_vars
    /\ [][ Len(formData.selectedStocks') < Len(formData.selectedStocks) =>
              \E t \in Range(Tickers) :
                 /\ Contains(formData.selectedStocks, t)
                 /\ ~Contains(formData.selectedStocks', t)
                 /\ formData.selectedStocks' = Remove(formData.selectedStocks, t) ]_vars
    /\ [][ Len(formData.selectedStocks') = Len(formData.selectedStocks) =>
              formData.selectedStocks' = formData.selectedStocks ]_vars

\* the selection is full and a result is still offered
C25_Witness ==
    /\ Len(formData.selectedStocks) = MaxSelections
    /\ showResults
    /\ searchResults # <<>>

----------------------------------------------------------------------------
(* C26 *)

\* C26: no ticker is selected twice.
C26_NoDuplicateTicker ==
    \A i, j \in DOMAIN formData.selectedStocks :
        formData.selectedStocks[i] = formData.selectedStocks[j] => i = j

----------------------------------------------------------------------------
(* C27 *)

\* every model listed is a model of the selected provider
ModelsOfSelected ==
    \A i \in DOMAIN models : models[i].provider = formData.selectedProvider

\* C27: once no loadModels call awaits its response, the models listed are
\* models of the selected provider, and without a provider the list is empty
\* and no model is selected.
C27_ModelsOfSelectedProvider ==
    loads = {} =>
        /\ ModelsOfSelected
        /\ formData.selectedProvider = "" => models = <<>> /\ formData.selectedModel = ""

----------------------------------------------------------------------------
(* C28 *)

\* the text the decoder hands over for the bytes content[from + 1 .. to]
Received(from, to) == Decode(decoderPending, SubSeq(content, from + 1, to)).text

NoNewline(text) == \A i \in DOMAIN text : text[i] # LF

\* C28: the pending buffer never holds a line terminator, and when a chunk has
\* been processed the lines extracted, each with its terminator, followed by
\* the pending buffer are the old buffer followed by the text received: every
\* character is in exactly one extracted line or in the buffer.
C28_FramingLosesNothing ==
    /\ [](NoNewline(buffer))
    /\ [][ pos' > pos =>
             /\ \A i \in DOMAIN lines' : NoNewline(lines'[i])
             /\ Join(lines') \o buffer' = buffer \o Received(pos, pos') ]_vars

\* a chunk has delivered two whole lines and the beginning of a third
C28_Witness ==
    /\ pc = "Dispatching"
    /\ Len(lines) = 2
    /\ buffer # <<>>
    /\ log = <<>>

----------------------------------------------------------------------------
(* C29 *)

\* an optional number of the request as the body should carry it
Carried(x, dflt) == IF x = Absent THEN dflt ELSE x[1]

\* C29: a call of runAnalysis issues exactly one request, and its body
\* carries initialCash and marginRequirement as given, 0 included, and the
\* defaults 100000 and 0 only where the request leaves them out.
C29_BodyCarriesRequest ==
    /\ Len(sent) = (IF pc = "Idle" THEN 0 ELSE 1)
    /\ \A i \in DOMAIN sent :
         /\ sent[i].initial_cash = Carried(request.initialCash, DefaultInitialCash)
         /\ sent[i].margin_requirement = Carried(request.marginRequirement, DefaultMargin)

====
